---- MODULE Spec2Model ----
(***************************************************************************)
(* Householder QR factorisation and the QR eigenvalue iteration of         *)
(* src/linalg/decompositions.rs, in exact arithmetic.                      *)
(*                                                                         *)
(* Scalars are exact numbers of the form (n/d)*sqrt(s): the rationals      *)
(* (s = 1) closed under the one square root the code takes (Norm::norm).   *)
(* A sum of two numbers with different radicals is not of this form; it is *)
(* represented by NaN, as is a division by zero.  The inputs of qr         *)
(* and eigen_qr are the matrices on which no NaN arises.                   *)
(***************************************************************************)
EXTENDS Integers, Sequences, FiniteSets, TLC

\* ------------------------------------------------------------------ bounds
MaxDim == 4
MaxAbs == 4
MaxNonZero == 2
MaxNiter == 2
MaxDense == 2
MaxEigenDim == 3
MaxEps == 2

\* ------------------------------------------------------------- scalars (N)
Abs(x) == IF x < 0 THEN -x ELSE x

Min(a, b) == IF a <= b THEN a ELSE b

Sgn(x) == IF x < 0 THEN -1 ELSE IF x = 0 THEN 0 ELSE 1

RECURSIVE Gcd(_, _)
Gcd(a, b) == IF b = 0 THEN a ELSE Gcd(b, a % b)

RECURSIVE ISqrt(_, _, _)
\* the integer square root of n, by bisection of lo..hi
ISqrt(n, lo, hi) ==
    IF lo >= hi THEN lo
    ELSE LET mid == (lo + hi + 1) \div 2
         IN IF mid * mid <= n THEN ISqrt(n, mid, hi) ELSE ISqrt(n, lo, mid - 1)

MaxOf(S) == CHOOSE k \in S : \A j \in S : j <= k

\* the largest k with k*k dividing n, for n > 0 (46340 * 46340 is the
\* largest square of a 32-bit integer)
SqPart(n) == MaxOf({k \in 1 .. ISqrt(n, 1, Min(n, 46340)) : n % (k * k) = 0})

NaN == <<0, 0, 0>>

IsNaN(a) == a[2] = 0

\* (n/d)*sqrt(s) in lowest terms, d > 0, for a square-free s
Num(n, d, s) ==
    IF d = 0 \/ s = 0 THEN NaN
    ELSE IF n = 0 THEN <<0, 1, 1>>
    ELSE IF d = 1 THEN <<n, 1, s>>
    ELSE LET g == Gcd(Abs(n), Abs(d))
         IN <<(n * Sgn(d)) \div g, Abs(d) \div g, s>>

Rat(n, d) == Num(n, d, 1)

Zero == Rat(0, 1)

One == Rat(1, 1)

IsZero(a) == ~IsNaN(a) /\ a[1] = 0

SNeg(a) == IF IsNaN(a) THEN NaN ELSE <<-a[1], a[2], a[3]>>

SAdd(a, b) ==
    IF IsNaN(a) \/ IsNaN(b) THEN NaN
    ELSE IF IsZero(a) THEN b
    ELSE IF IsZero(b) THEN a
    ELSE IF a[3] # b[3] THEN NaN
    ELSE IF a[2] = 1 /\ b[2] = 1 THEN Num(a[1] + b[1], 1, a[3])
    ELSE LET g == Gcd(a[2], b[2])
         IN Num(a[1] * (b[2] \div g) + b[1] * (a[2] \div g),
                (a[2] \div g) * b[2], a[3])

SSub(a, b) == SAdd(a, SNeg(b))

\* x*y*g*sqrt((s/g)*(t/g)) for the fractions x and y
MulScaled(x, y, z, s) == Num(x[1] * y[1] * z[1], z[2], s)

MulReduced(x, y, g, s, t) ==
    MulScaled(x, y, Num(g, x[2] * y[2], 1), (s \div g) * (t \div g))

SMul(a, b) ==
    IF IsNaN(a) \/ IsNaN(b) THEN NaN
    ELSE IF IsZero(a) \/ IsZero(b) THEN Zero
    ELSE IF a[2] = 1 /\ b[2] = 1 /\ a[3] = 1 /\ b[3] = 1 THEN <<a[1] * b[1], 1, 1>>
    ELSE MulReduced(Num(a[1], b[2], 1), Num(b[1], a[2], 1), Gcd(a[3], b[3]),
                    a[3], b[3])

SInv(a) ==
    IF IsNaN(a) \/ IsZero(a) THEN NaN
    ELSE Num(a[2] * Sgn(a[1]), Abs(a[1]) * a[3], a[3])

SDiv(a, b) == SMul(a, SInv(b))

SAbs(a) == IF IsNaN(a) THEN NaN ELSE <<Abs(a[1]), a[2], a[3]>>

\* a*a as a pair <<numerator, denominator>>
Sq(a) == <<a[1] * a[1] * a[3], a[2] * a[2]>>

\* a >= b; every comparison with NaN is false
SGe(a, b) ==
    IF IsNaN(a) \/ IsNaN(b) THEN FALSE
    ELSE IF a[1] >= 0 /\ b[1] <= 0 THEN TRUE
    ELSE IF a[1] < 0 /\ b[1] >= 0 THEN FALSE
    ELSE IF a[1] >= 0
         THEN Sq(a)[1] * Sq(b)[2] >= Sq(b)[1] * Sq(a)[2]
         ELSE Sq(a)[1] * Sq(b)[2] <= Sq(b)[1] * Sq(a)[2]

\* sqrt(p/q) for p >= 0, q > 0
SqrtParts(p, q, kp, kq) ==
    Num(kp, kq * (q \div (kq * kq)), (p \div (kp * kp)) * (q \div (kq * kq)))

SqrtLowest(p, q) == SqrtParts(p, q, SqPart(p), SqPart(q))

SSqrt(p, q) ==
    IF p = 0 THEN Zero ELSE SqrtLowest(p \div Gcd(p, q), q \div Gcd(p, q))


\* ------------------------------------------------------------- vectors (V)
RECURSIVE ToSeq(_, _)
\* the sequence <<f[0], ..., f[n-1]>>
ToSeq(f, n) == IF n = 0 THEN <<>> ELSE Append(ToSeq(f, n - 1), f[n - 1])

\* a vector is the sequence of its components; the code's indices start at 0
VLen(v) == Len(v)

VAt(v, i) == v[i + 1]

RECURSIVE SumTo(_, _)
\* f[0] + ... + f[n-1]
SumTo(f, n) == IF n = 0 THEN Zero ELSE SAdd(SumTo(f, n - 1), f[n - 1])

\* Norm::norm: the Euclidean norm, sqrt of the sum of the squares
SqrtOf(sq) == IF IsNaN(sq) THEN NaN ELSE SSqrt(sq[1], sq[2])

Norm(v) ==
    SqrtOf(SumTo([i \in 0 .. VLen(v) - 1 |-> SMul(VAt(v, i), VAt(v, i))], VLen(v)))

\* Norm::normalize: divides every component by the norm and returns the norm
DividedBy(v, l) ==
    [norm |-> l,
     vec |-> ToSeq([i \in 0 .. VLen(v) - 1 |-> SDiv(VAt(v, i), l)], VLen(v))]

Normalize(v) == DividedBy(v, Norm(v))

\* ------------------------------------------------------------ matrices (M)
\* a matrix is [rows, cols, e] with e the sequence of its rows
Mat(rows, cols, f(_, _)) ==
    [rows |-> rows, cols |-> cols,
     e |-> ToSeq([i \in 0 .. rows - 1 |->
                    ToSeq([j \in 0 .. cols - 1 |-> f(i, j)], cols)], rows)]

At(a, i, j) == a.e[i + 1][j + 1]

\* Eye::new_identity
Identity(dim) == Mat(dim, dim, LAMBDA i, j : IF i = j THEN One ELSE Zero)

\* Mul<M, M>: the matrix product
MatMul(a, b) ==
    Mat(a.rows, b.cols,
        LAMBDA i, j : SumTo([k \in 0 .. a.cols - 1 |-> SMul(At(a, i, k), At(b, k, j))],
                            a.cols))

\* Transpose::transpose_cpy
TransposeCpy(a) == Mat(a.cols, a.rows, LAMBDA i, j : At(a, j, i))

\* ColSlice::col_slice: rows row_start .. row_end-1 of column col_id
ColSliceOf(a, col_id, row_start, row_end) ==
    ToSeq([i \in 0 .. row_end - row_start - 1 |-> At(a, row_start + i, col_id)],
          row_end - row_start)

\* Diag::diag
DiagOf(a) == ToSeq([i \in 0 .. a.rows - 1 |-> At(a, i, i)], a.rows)

MatHasNaN(a) == \E i \in 0 .. a.rows - 1, j \in 0 .. a.cols - 1 : IsNaN(At(a, i, j))

\* ------------------------------------------- unchecked accesses (Indexable)
\* an unsafe_at / unsafe_set on a vector of shape len at index i,
\* or on a matrix of shape (rows, cols) at index (i, j)
VAcc(len, i) == <<"v", len, i>>

MAcc(a, i, j) == <<"m", a.rows, a.cols, i, j>>

InBounds(x) ==
    IF x[1] = "v" THEN 0 <= x[3] /\ x[3] < x[2]
    ELSE 0 <= x[4] /\ x[4] < x[2] /\ 0 <= x[5] /\ x[5] < x[3]

\* ------------------------------------------------------ householder_matrix
\* variant: vv is subtracted once
ReflectedOnce(qkij, vv) == SSub(qkij, vv)

\* qk.unsafe_set((i, j), qkij - vv - vv)
Reflected(qkij, vv) == SSub(SSub(qkij, vv), vv)

\* assert!(dim >= stop)
HouseholderPre(dim, stop) == dim >= stop

\* the body of the inner loop at (i, j), on st = [qk, acc]: the matrix so
\* far and the unchecked accesses made
HouseholderSet(st, vec, start, i, j) ==
    [qk |-> [st.qk EXCEPT !.e[i + 1][j + 1] =
                Reflected(At(st.qk, i, j),
                          SMul(VAt(vec, i - start), VAt(vec, j - start)))],
     acc |-> st.acc \cup {VAcc(VLen(vec), i - start), VAcc(VLen(vec), j - start),
                          MAcc(st.qk, i, j)}]

RECURSIVE HouseholderLoop(_, _, _, _, _, _)
\* the two nested loops, from position (i, j) on: for j { for i { ... } }
HouseholderLoop(st, vec, start, stop, i, j) ==
    IF j >= stop THEN st
    ELSE IF i >= stop THEN HouseholderLoop(st, vec, start, stop, start, j + 1)
    ELSE HouseholderLoop(HouseholderSet(st, vec, start, i, j),
                         vec, start, stop, i + 1, j)

\* what the call returns: ok is the assertion, qk the matrix
HouseholderOut(dim, start, vec, ok, out) ==
    [ok |-> ok, dim |-> dim, start |-> start, vec |-> vec,
     qk |-> out.qk, acc |-> out.acc]

\* householder_matrix(dim, start, vec), with stop = subdim + start
HouseholderTo(dim, start, vec, stop) ==
    HouseholderOut(dim, start, vec, HouseholderPre(dim, stop),
        IF HouseholderPre(dim, stop)
        THEN HouseholderLoop([qk |-> Identity(dim), acc |-> {}],
                             vec, start, stop, start, start)
        ELSE [qk |-> Identity(dim), acc |-> {}])

householder_matrix(dim, start, vec) ==
    HouseholderTo(dim, start, vec, VLen(vec) + start)

\* ---------------------------------------------------------------------- qr
\* what a read past the end of a vector can return, one value for each
\* outcome of the comparison with zero
UbReads == {Rat(1, 1), Rat(-1, 1)}

\* variant: one pass for every row
IterationsAll(rows, cols) == Min(rows, cols)

\* let iterations = min(rows - 1, cols)
Iterations(rows, cols) == Min(rows - 1, cols)

\* variant: one column more than rows is let through
QrPreWide(rows, cols) == rows + 1 >= cols

\* assert!(rows >= cols)
QrPre(rows, cols) == rows >= cols

\* variant: the slice starts at row 0
WholeColumn(r, ite, rows) == ColSliceOf(r, ite, 0, rows)

\* let mut v = r.col_slice(ite, ite, rows)
SubColumn(r, ite, rows) == ColSliceOf(r, ite, ite, rows)

\* unsafe { v.unsafe_at(ite) }: ub is what the read returns past the end of v
Lead(v, ite, ub) == IF ite < VLen(v) THEN VAt(v, ite) ELSE ub

\* let alpha = if lead >= 0 { -norm(v) } else { norm(v) }
Alpha(v, lead) == IF SGe(lead, Zero) THEN SNeg(Norm(v)) ELSE Norm(v)

\* r = qk * r
ApplyR(qk, r) == MatMul(qk, r)

\* variant: the product is taken on the left
ApplyQLeft(q, qk) == MatMul(TransposeCpy(qk), q)

\* q = q * transpose_cpy(qk)
ApplyQ(q, qk) == MatMul(q, TransposeCpy(qk))

\* v.unsafe_set(0, x - alpha) with x = v.unsafe_at(0)
SubtractAlpha(v, alpha) == [v EXCEPT ![1] = SSub(VAt(v, 0), alpha)]

\* if !v.normalize().is_zero(): the pass builds no reflector
Skip(norm) == IsZero(norm)

\* variant: the reflector is embedded at offset 0
ReflectorAtZero(rows, ite, vec) == householder_matrix(rows, 0, vec)

\* let qk = householder_matrix(rows, ite, v)
Reflector(rows, ite, vec) == householder_matrix(rows, ite, vec)

\* the pass with its reflector hh built: r = qk * r; q = q * qk^T
QrReflected(q, r, ite, v, alpha, v1, nz, hh) ==
    [ok |-> hh.ok,
     q |-> IF hh.ok THEN ApplyQ(q, hh.qk) ELSE q,
     r |-> IF hh.ok THEN ApplyR(hh.qk, r) ELSE r,
     ite |-> ite, v |-> v, alpha |-> alpha, v1 |-> v1, norm |-> nz.norm,
     skip |-> FALSE,
     hh |-> {[hh EXCEPT !.acc = {}]},
     acc |-> {VAcc(VLen(v), ite), VAcc(VLen(v), 0)} \cup hh.acc]

\* the pass after v.normalize() returned nz: its norm and the unit vector
QrNormalized(q, r, rows, ite, v, alpha, v1, nz) ==
    IF Skip(nz.norm)
    THEN [ok |-> TRUE, q |-> q, r |-> r,
          ite |-> ite, v |-> v, alpha |-> alpha, v1 |-> v1, norm |-> nz.norm,
          skip |-> TRUE, hh |-> {},
          acc |-> {VAcc(VLen(v), ite), VAcc(VLen(v), 0)}]
    ELSE QrReflected(q, r, ite, v, alpha, v1, nz, Reflector(rows, ite, nz.vec))

QrShifted(q, r, rows, ite, v, alpha, v1) ==
    QrNormalized(q, r, rows, ite, v, alpha, v1, Normalize(v1))

QrWithAlpha(q, r, rows, ite, v, alpha) ==
    QrShifted(q, r, rows, ite, v, alpha, SubtractAlpha(v, alpha))

QrOnColumn(q, r, rows, ite, v, ub) ==
    QrWithAlpha(q, r, rows, ite, v, Alpha(v, Lead(v, ite, ub)))

\* one pass of the loop body of qr, for ite, on the locals q and r
QrIterate(q, r, rows, ite, ub) ==
    QrOnColumn(q, r, rows, ite, SubColumn(r, ite, rows), ub)

\* the locals after the pass it, with what the passes did so far
QrAdvance(st, it) ==
    [ok |-> it.ok, q |-> it.q, r |-> it.r, ite |-> st.ite + 1,
     hh |-> st.hh \cup it.hh, acc |-> st.acc \cup it.acc]

RECURSIVE QrLoop(_, _, _)
\* the loop of qr from st.ite on; ubs[k] is the out-of-bounds read of pass k
QrLoop(st, m, ubs) ==
    IF ~st.ok \/ st.ite >= Iterations(m.rows, m.cols) THEN st
    ELSE QrLoop(QrAdvance(st, QrIterate(st.q, st.r, m.rows, st.ite, ubs[st.ite])),
                m, ubs)

\* qr(m) as a whole: ok is FALSE when an assertion failed
qr(m, ubs) ==
    IF ~QrPre(m.rows, m.cols)
    THEN [ok |-> FALSE, q |-> m, r |-> m, ite |-> 0, hh |-> {}, acc |-> {}]
    ELSE QrLoop([ok |-> TRUE, q |-> Identity(m.rows), r |-> m, ite |-> 0,
                 hh |-> {}, acc |-> {}], m, ubs)

\* the passes of qr on m that read v past its end: ite >= rows - ite
OobPasses(m) ==
    {k \in 0 .. Iterations(m.rows, m.cols) - 1 : k >= m.rows - k}

\* the choices of out-of-bounds reads over the passes of one call of qr
UbChoices(m) ==
    {[k \in 0 .. Iterations(m.rows, m.cols) - 1 |->
        IF k \in DOMAIN f THEN f[k] ELSE Rat(1, 1)] :
     f \in [OobPasses(m) -> UbReads]}

NoNaNs(out) == ~MatHasNaN(out.q) /\ ~MatHasNaN(out.r)

\* m is in the exact domain of qr: no NaN arises, whatever is read
QrExact(m) == \A ubs \in UbChoices(m) : NoNaNs(qr(m, ubs))

\* ---------------------------------------------------------------- eigen_qr
\* assert!(rows == cols)
EigenPre(rows, cols) == rows = cols

\* variant: the comparison is strict
OffendingStrict(x, eps) == ~SGe(eps, SAbs(x))

\* if abs(eigenvalues.unsafe_at((i, j))) >= *eps
Offending(x, eps) == SGe(SAbs(x), eps)

RECURSIVE ScanColumn(_, _, _, _, _, _)
\* for i in range(i, hi) { if |eigenvalues[(i, j)]| >= eps { stop = false; break } }
ScanColumn(st, eigenvalues, eps, j, i, hi) ==
    IF i >= hi THEN st
    ELSE IF Offending(At(eigenvalues, i, j), eps)
         THEN [stop |-> FALSE, acc |-> st.acc \cup {MAcc(eigenvalues, i, j)}]
         ELSE ScanColumn([st EXCEPT !.acc = @ \cup {MAcc(eigenvalues, i, j)}],
                         eigenvalues, eps, j, i + 1, hi)

RECURSIVE ScanFrom(_, _, _, _, _, _)
\* for j in range(j, cols) { the scan above the diagonal; the scan below it }
ScanFrom(st, eigenvalues, eps, rows, cols, j) ==
    IF j >= cols THEN st
    ELSE ScanFrom(ScanColumn(ScanColumn(st, eigenvalues, eps, j, 0, j),
                             eigenvalues, eps, j, j + 1, rows),
                  eigenvalues, eps, rows, cols, j + 1)

\* the convergence check: let mut stop = true; the scan; [stop, acc]
Converged(eigenvalues, eps, rows, cols) ==
    ScanFrom([stop |-> TRUE, acc |-> {}], eigenvalues, eps, rows, cols, 0)

\* for i in range(0, rows) { shifter.unsafe_set((i, i), shift) }
SetShift(shifter, shift, rows) ==
    Mat(shifter.rows, shifter.cols,
        LAMBDA i, j : IF i = j /\ i < rows THEN shift ELSE At(shifter, i, j))

\* the loop body after qr returned out: the two products
EigenUpdated(eigenvectors, eigenvalues, shifter, rows, out) ==
    [ok |-> out.ok,
     shifter |-> SetShift(shifter, At(eigenvalues, rows - 1, rows - 1), rows),
     eigenvalues |-> IF out.ok THEN MatMul(out.r, out.q) ELSE eigenvalues,
     eigenvectors |-> IF out.ok THEN MatMul(eigenvectors, out.q)
                      ELSE eigenvectors,
     qr |-> [rows |-> eigenvalues.rows, cols |-> eigenvalues.cols,
             ok |-> QrPre(eigenvalues.rows, eigenvalues.cols)],
     hh |-> out.hh,
     acc |-> {MAcc(eigenvalues, rows - 1, rows - 1)}
             \cup {MAcc(shifter, i, i) : i \in 0 .. rows - 1}
             \cup out.acc]

\* the loop body after the check: the shift, qr, and the two products
EigenBody(eigenvectors, eigenvalues, shifter, rows, ubs) ==
    EigenUpdated(eigenvectors, eigenvalues, shifter, rows, qr(eigenvalues, ubs))

\* variant: one pass too many
LoopDoneLate(cnt, niter) == cnt > niter

\* for _ in range(0, niter): the loop is over
LoopDone(cnt, niter) == cnt >= niter

RECURSIVE EigenExactFrom(_, _, _, _)
\* no NaN arises in n passes of the loop from eigenvalues, whatever is read;
\* the inputs of eigen_qr are the matrices with no NaN in MaxNiter passes
EigenExactFrom(eigenvalues, eps, rows, n) ==
    IF n = 0 \/ Converged(eigenvalues, eps, rows, rows).stop THEN TRUE
    ELSE \A ubs \in UbChoices(eigenvalues) :
            \A out \in {qr(eigenvalues, ubs)} :
               /\ NoNaNs(out)
               /\ EigenExactFrom(MatMul(out.r, out.q), eps, rows, n - 1)

\* ------------------------------------------------------------------ inputs
RECURSIVE KSubsets(_, _)
\* the subsets of S of at most k elements
KSubsets(S, k) ==
    IF k = 0 THEN {{}}
    ELSE UNION {{T} \cup {T \cup {x} : x \in S} : T \in KSubsets(S, k - 1)}

Cells(rows, cols) == (0 .. rows - 1) \X (0 .. cols - 1)

Shapes == (1 .. MaxDim) \X (1 .. MaxDim)

\* the shapes of the sparse matrices eigen_qr is called on
EigenShapes == (1 .. MaxEigenDim) \X (1 .. MaxEigenDim)

\* the shapes of at most MaxDense rows and columns
DenseShapes == (1 .. MaxDense) \X (1 .. MaxDense)

\* a matrix of shape sh with the integer entries f, f in
\* [Cells(sh[1], sh[2]) -> -MaxAbs .. MaxAbs]
DenseMat(sh, f) == Mat(sh[1], sh[2], LAMBDA i, j : Rat(f[<<i, j>>], 1))

\* a matrix of shape sh with the entries f (1 or -1) on the cells S, 0 elsewhere
SparseMat(sh, S, f) ==
    Mat(sh[1], sh[2], LAMBDA i, j : IF <<i, j>> \in S THEN Rat(f[<<i, j>>], 1) ELSE Zero)

\* the vectors of householder_matrix: entries 1, 0 and -1
Vectors ==
    UNION {{ToSeq(f, n) : f \in [0 .. n - 1 -> {Rat(-1, 1), Zero, Rat(1, 1)}]} :
           n \in 1 .. MaxDim}

\* eps is a positive scalar
Epsilons == {Rat(e, 1) : e \in 1 .. MaxEps}

\* -------------------------------------------------------------- the calls
\* nothing returned
None == <<>>

\* a local that holds no matrix yet
NoMat == [rows |-> 0, cols |-> 0, e |-> <<>>]

VARIABLES
    pc,            \* "idle", "qr", "eigen", "qr_ret", "eigen_ret", "hh_ret", "panic"
    arg,           \* the entry point called and its arguments
    q, r, ite,     \* the locals of qr
    eigenvectors, eigenvalues, shifter, iter, cnt,   \* the locals of eigen_qr
    step,          \* what the last pass did: its values, the matrix it checked
                   \* (on), its nested calls (hh, qr) and its accesses (acc)
    ret            \* the value returned

vars == <<pc, arg, q, r, ite, eigenvectors, eigenvalues, shifter, iter, cnt,
          step, ret>>

qrLocals == <<q, r, ite>>

eigenLocals == <<eigenvectors, eigenvalues, shifter, iter, cnt>>

Init ==
    /\ pc = "idle"
    /\ arg = [fn |-> "none"]
    /\ q = NoMat /\ r = NoMat /\ ite = 0
    /\ eigenvectors = NoMat /\ eigenvalues = NoMat /\ shifter = NoMat
    /\ iter = 0 /\ cnt = 0
    /\ step = [kind |-> "none", hh |-> {}, qr |-> {}, acc |-> {}]
    /\ ret = None

\* a failed assertion of the entry point itself
Panic ==
    /\ pc' = "panic"
    /\ step' = [kind |-> "assert", nested |-> FALSE, hh |-> {}, qr |-> {}, acc |-> {}]
    /\ UNCHANGED <<qrLocals, eigenLocals, ret>>

\* a failed assertion of a nested call
NestedPanic(hh, qrs) ==
    /\ pc' = "panic"
    /\ step' = [kind |-> "assert", nested |-> TRUE, hh |-> hh, qr |-> qrs, acc |-> {}]
    /\ UNCHANGED <<qrLocals, eigenLocals, ret>>

HouseholderCall(dim, start, vec) ==
    /\ pc = "idle"
    /\ arg' = [fn |-> "householder_matrix", dim |-> dim, start |-> start, vec |-> vec]
    /\ \E out \in {householder_matrix(dim, start, vec)} :
          IF out.ok
          THEN /\ pc' = "hh_ret"
               /\ ret' = <<out.qk>>
               /\ step' = [kind |-> "householder_matrix",
                           hh |-> {[out EXCEPT !.acc = {}]}, qr |-> {},
                           acc |-> out.acc]
               /\ UNCHANGED <<qrLocals, eigenLocals>>
          ELSE Panic

QrCall(m) ==
    /\ pc = "idle"
    /\ arg' = [fn |-> "qr", m |-> m]
    /\ IF QrPre(m.rows, m.cols)
       THEN /\ pc' = "qr"
            /\ q' = Identity(m.rows)
            /\ r' = m
            /\ ite' = 0
            /\ UNCHANGED <<eigenLocals, step, ret>>
       ELSE Panic

QrIter ==
    /\ pc = "qr"
    /\ ite < Iterations(arg.m.rows, arg.m.cols)
    /\ \E ub \in UbReads :
          \E it \in {QrIterate(q, r, arg.m.rows, ite, ub)} :
             IF it.ok
             THEN /\ q' = it.q
                  /\ r' = it.r
                  /\ ite' = ite + 1
                  /\ step' = [kind |-> "qr_iter", ite |-> ite, v |-> it.v,
                              alpha |-> it.alpha, v1 |-> it.v1, norm |-> it.norm,
                              skip |-> it.skip, hh |-> it.hh, qr |-> {},
                              acc |-> it.acc]
                  /\ UNCHANGED <<pc, arg, eigenLocals, ret>>
             ELSE NestedPanic(it.hh, {}) /\ UNCHANGED arg

QrReturn ==
    /\ pc = "qr"
    /\ ~(ite < Iterations(arg.m.rows, arg.m.cols))
    /\ pc' = "qr_ret"
    /\ ret' = <<q, r>>
    /\ step' = [kind |-> "return", hh |-> {}, qr |-> {}, acc |-> {}]
    /\ UNCHANGED <<arg, qrLocals, eigenLocals>>

EigenCall(m, eps, niter) ==
    /\ pc = "idle"
    /\ arg' = [fn |-> "eigen_qr", m |-> m, eps |-> eps, niter |-> niter]
    /\ IF EigenPre(m.rows, m.cols)
       THEN /\ pc' = "eigen"
            /\ eigenvectors' = Identity(m.rows)
            /\ eigenvalues' = m
            /\ shifter' = Identity(m.rows)
            /\ iter' = 0
            /\ cnt' = 0
            /\ UNCHANGED <<qrLocals, step, ret>>
       ELSE Panic

\* one pass of the loop: the convergence check, then the break or the body
EigenIter ==
    /\ pc = "eigen"
    /\ ~LoopDone(cnt, arg.niter)
    /\ \E chk \in {Converged(eigenvalues, arg.eps, arg.m.rows, arg.m.cols)} :
          IF chk.stop
          THEN /\ pc' = "eigen_ret"
               /\ ret' = <<eigenvectors, DiagOf(eigenvalues)>>
               /\ step' = [kind |-> "eigen_break", stop |-> TRUE,
                           on |-> eigenvalues, hh |-> {},
                           qr |-> {}, acc |-> chk.acc]
               /\ UNCHANGED <<arg, qrLocals, eigenLocals>>
          ELSE \E ubs \in UbChoices(eigenvalues) :
                  \E b \in {EigenBody(eigenvectors, eigenvalues, shifter,
                                     arg.m.rows, ubs)} :
                     IF b.ok
                     THEN /\ eigenvectors' = b.eigenvectors
                          /\ eigenvalues' = b.eigenvalues
                          /\ shifter' = b.shifter
                          /\ iter' = iter + 1
                          /\ cnt' = cnt + 1
                          /\ step' = [kind |-> "eigen_body", stop |-> FALSE,
                                      on |-> eigenvalues,
                                      hh |-> b.hh, qr |-> {b.qr},
                                      acc |-> chk.acc \cup b.acc]
                          /\ UNCHANGED <<pc, arg, qrLocals, ret>>
                     ELSE NestedPanic(b.hh, {b.qr}) /\ UNCHANGED arg

\* the loop ran niter times without a break
EigenReturn ==
    /\ pc = "eigen"
    /\ LoopDone(cnt, arg.niter)
    /\ pc' = "eigen_ret"
    /\ ret' = <<eigenvectors, DiagOf(eigenvalues)>>
    /\ step' = [kind |-> "return", hh |-> {}, qr |-> {}, acc |-> {}]
    /\ UNCHANGED <<arg, qrLocals, eigenLocals>>

\* m is an input of qr: any matrix that fails the assertion, and the
\* matrices on which the arithmetic is exact
QrInput(m) == QrPre(m.rows, m.cols) => QrExact(m)

\* m is an input of eigen_qr with eps, likewise, for MaxNiter passes
EigenInput(m, eps) ==
    EigenPre(m.rows, m.cols) => EigenExactFrom(m, eps, m.rows, MaxNiter)

\* the matrices a call is made on: the small ones with any entries, and the
\* ones of any shape with at most MaxNonZero entries 1 or -1
CallQr ==
    /\ pc = "idle"
    /\ \/ \E sh \in DenseShapes :
             \E f \in [Cells(sh[1], sh[2]) -> -MaxAbs .. MaxAbs] :
                /\ QrInput(DenseMat(sh, f))
                /\ QrCall(DenseMat(sh, f))
       \/ \E sh \in Shapes :
             \E S \in KSubsets(Cells(sh[1], sh[2]), MaxNonZero) :
                \E f \in [S -> {-1, 1}] :
                   /\ QrInput(SparseMat(sh, S, f))
                   /\ QrCall(SparseMat(sh, S, f))

CallEigen ==
    /\ pc = "idle"
    /\ \E eps \in Epsilons :
          \/ \E sh \in DenseShapes :
                \E f \in [Cells(sh[1], sh[2]) -> -MaxAbs .. MaxAbs] :
                   /\ EigenInput(DenseMat(sh, f), eps)
                   /\ \E niter \in 0 .. MaxNiter :
                         EigenCall(DenseMat(sh, f), eps, niter)
          \/ \E sh \in EigenShapes :
                \E S \in KSubsets(Cells(sh[1], sh[2]), MaxNonZero) :
                   \E f \in [S -> {-1, 1}] :
                      /\ EigenInput(SparseMat(sh, S, f), eps)
                      /\ \E niter \in 0 .. MaxNiter :
                            EigenCall(SparseMat(sh, S, f), eps, niter)

CallHouseholder ==
    /\ pc = "idle"
    /\ \E dim \in 1 .. MaxDim, start \in 0 .. MaxDim - 1, vec \in Vectors :
       HouseholderCall(dim, start, vec)

Next ==
    \/ CallHouseholder
    \/ CallQr
    \/ QrIter
    \/ QrReturn
    \/ CallEigen
    \/ EigenIter
    \/ EigenReturn

Spec == Init /\ [][Next]_vars

\* the loop of qr goes on: it makes its next pass, or qr returns
QrPass ==
    /\ pc = "qr"
    /\ \/ pc' = "qr" /\ ite' = ite + 1
       \/ pc' = "qr_ret" /\ ite' = ite

\* the loop of eigen_qr goes on: it makes its next pass, or eigen_qr returns
EigenPass ==
    /\ pc = "eigen"
    /\ \/ pc' = "eigen" /\ cnt' = cnt + 1
       \/ pc' = "eigen_ret" /\ cnt' = cnt

\* a call that was made runs on: sequential code does not stop in a loop
FairSpec ==
    /\ Spec
    /\ WF_<<pc, ite>>(QrPass)
    /\ WF_<<pc, cnt>>(EigenPass)

\* ------------------------------------------------------------------ claims
\* the entry point called, with its shape precondition satisfied
QrCalled == arg.fn = "qr" /\ arg.m.rows >= arg.m.cols

EigenCalled == arg.fn = "eigen_qr" /\ arg.m.rows = arg.m.cols

HouseholderCalled ==
    arg.fn = "householder_matrix" /\ arg.dim >= arg.start + Len(arg.vec)

UpperTriangular(a) ==
    \A i \in 0 .. a.rows - 1, j \in 0 .. a.cols - 1 : i > j => IsZero(At(a, i, j))

\* every off-diagonal entry of a is strictly below eps in absolute value
OffDiagonalBelow(a, eps) ==
    \A i \in 0 .. a.rows - 1, j \in 0 .. a.cols - 1 :
        i # j => ~SGe(SAbs(At(a, i, j)), eps)

Kronecker(i, j) == IF i = j THEN One ELSE Zero

\* C1: for every M with rows >= cols, qr(M) returns (Q, R) with Q^T * Q the
\* rows x rows identity, R upper-triangular and Q * R = M.
C1_QrContract ==
    (QrCalled /\ pc = "qr_ret") =>
        /\ MatMul(TransposeCpy(ret[1]), ret[1]) = Identity(arg.m.rows)
        /\ ret[2].rows = arg.m.rows /\ ret[2].cols = arg.m.cols
        /\ UpperTriangular(ret[2])
        /\ MatMul(ret[1], ret[2]) = arg.m

\* qr returned for a matrix with more rows than columns, after reflections
\* that left irrational entries in Q
C1_Witness ==
    /\ QrCalled /\ pc = "qr_ret"
    /\ arg.m.rows > arg.m.cols /\ arg.m.cols >= 2
    /\ \E i \in 0 .. arg.m.rows - 1, j \in 0 .. arg.m.rows - 1 : At(ret[1], i, j)[3] # 1

\* C2: for dim >= start + subdim, householder_matrix(dim, start, v) is the
\* dim x dim matrix H with H[i,j] = identity[i,j] - 2*v[i-start]*v[j-start]
\* for i and j both in [start, start+subdim), and identity[i,j] elsewhere.
C2_HouseholderClosedForm ==
    \A h \in step.hh :
        h.dim >= h.start + Len(h.vec) =>
            /\ h.ok
            /\ h.qk.rows = h.dim /\ h.qk.cols = h.dim
            /\ \A i \in 0 .. h.dim - 1, j \in 0 .. h.dim - 1 :
                  At(h.qk, i, j) =
                     IF /\ h.start <= i /\ i < h.start + Len(h.vec)
                        /\ h.start <= j /\ j < h.start + Len(h.vec)
                     THEN SSub(Kronecker(i, j),
                               SMul(Rat(2, 1), SMul(VAt(h.vec, i - h.start),
                                                    VAt(h.vec, j - h.start))))
                     ELSE Kronecker(i, j)

\* householder_matrix returned for a vector without zeros, embedded strictly
\* inside the ambient dimension
C2_Witness ==
    /\ HouseholderCalled /\ pc = "hh_ret"
    /\ arg.start >= 1 /\ Len(arg.vec) >= 2
    /\ arg.dim > arg.start + Len(arg.vec)
    /\ \A i \in 1 .. Len(arg.vec) : ~IsZero(arg.vec[i])
    /\ ret # <<Identity(arg.dim)>>

\* one step of eigen_qr on a square matrix: a pass of the body, or the return
EigenStep ==
    (EigenCalled /\ pc = "eigen") =>
        /\ pc' \in {"eigen", "eigen_ret"}
        /\ OffDiagonalBelow(eigenvalues, arg.eps) => pc' = "eigen_ret"
        /\ pc' = "eigen" =>
              /\ iter < arg.niter /\ iter' = iter + 1
              /\ Cardinality(step'.qr) = 1
        /\ pc' = "eigen_ret" =>
              /\ OffDiagonalBelow(eigenvalues, arg.eps) \/ iter = arg.niter
              /\ step'.qr = {}
              /\ ret' = <<eigenvectors, DiagOf(eigenvalues)>>

\* C3: for every square M, eps and niter, eigen_qr terminates and returns:
\* the body runs at most niter times, the loop stops as soon as a convergence
\* check succeeds, and when niter is exhausted without convergence the
\* current estimate (eigenvectors, diagonal of eigenvalues) is returned
\* without an error.
C3_EigenTerminates ==
    /\ [](EigenCalled => pc \in {"eigen", "eigen_ret"} /\ iter <= arg.niter)
    /\ [][EigenStep]_vars
    /\ (EigenCalled /\ pc = "eigen") ~> (pc = "eigen_ret")

\* niter passes of the body ran and the matrix has not converged: the
\* estimate is returned
C3_Witness ==
    /\ EigenCalled /\ pc = "eigen_ret"
    /\ arg.niter >= 2 /\ iter = arg.niter
    /\ ~OffDiagonalBelow(eigenvalues, arg.eps)
    /\ eigenvalues # arg.m
    /\ ret = <<eigenvectors, DiagOf(eigenvalues)>>

\* C4: every entry point fails with a fatal assertion and returns nothing
\* when its shape precondition is violated (qr: rows < cols, eigen_qr:
\* rows # cols, householder_matrix: dim < start + length(v)), and no
\* decomposition step is performed.
C4_ShapeAssertions ==
    (\/ arg.fn = "qr" /\ arg.m.rows < arg.m.cols
     \/ arg.fn = "eigen_qr" /\ arg.m.rows # arg.m.cols
     \/ arg.fn = "householder_matrix" /\ arg.dim < arg.start + Len(arg.vec)) =>
        /\ pc = "panic"
        /\ ret = None
        /\ step.kind = "assert" /\ step.hh = {} /\ step.qr = {} /\ step.acc = {}
        /\ q = NoMat /\ r = NoMat /\ ite = 0
        /\ eigenvectors = NoMat /\ eigenvalues = NoMat /\ iter = 0

\* eigen_qr was called on a matrix with more rows than columns, which qr accepts
C4_Witness ==
    /\ pc = "panic"
    /\ arg.fn = "eigen_qr" /\ arg.m.rows > arg.m.cols /\ arg.niter > 0

\* C5: for every input that satisfies the entry preconditions, every
\* unsafe_at / unsafe_set of householder_matrix, qr and eigen_qr uses an index
\* strictly inside the shape of what it accesses.
C5_AccessesInBounds ==
    (QrCalled \/ EigenCalled \/ HouseholderCalled) =>
        \A x \in step.acc : InBounds(x)

\* C6: a 1x1 matrix M is a no-op for both algorithms: qr(M) makes zero
\* iterations and returns Q = [1], R = M; eigen_qr(M, eps, niter) returns the
\* 1x1 identity and the element of M without running the body.
C6_OneByOne ==
    (arg.fn \in {"qr", "eigen_qr"} /\ arg.m.rows = 1 /\ arg.m.cols = 1) =>
        /\ pc \in {"qr", "qr_ret", "eigen", "eigen_ret"}
        /\ pc \in {"qr", "qr_ret"} => ite = 0 /\ q = Identity(1) /\ r = arg.m
        /\ pc = "qr_ret" => ret = <<Identity(1), arg.m>>
        /\ pc \in {"eigen", "eigen_ret"} =>
              /\ iter = 0
              /\ eigenvectors = Identity(1) /\ eigenvalues = arg.m
              /\ step.hh = {} /\ step.qr = {}
        /\ pc = "eigen_ret" => ret = <<Identity(1), <<At(arg.m, 0, 0)>>>>

\* eigen_qr returned on a nonzero 1x1 matrix with passes to spare
C6_Witness ==
    /\ arg.fn = "eigen_qr" /\ arg.m.rows = 1 /\ arg.m.cols = 1
    /\ pc = "eigen_ret" /\ arg.niter > 0
    /\ ~IsZero(At(arg.m, 0, 0))
    /\ ret = <<Identity(1), <<At(arg.m, 0, 0)>>>>

\* C7: in every QR iteration k, with v the sub-column of column k of R from
\* row k on, alpha = -norm(v) when v[0] >= 0 and alpha = +norm(v) when
\* v[0] < 0, and then v[0] is replaced by v[0] - alpha.
C7_AlphaSignFromFirst ==
    (QrCalled /\ step.kind = "qr_iter") =>
        /\ step.alpha = IF SGe(VAt(step.v, 0), Zero)
                        THEN SNeg(Norm(step.v)) ELSE Norm(step.v)
        /\ step.v1 = [step.v EXCEPT ![1] = SSub(VAt(step.v, 0), step.alpha)]

\* C8: the convergence check of eigen_qr reports stop if and only if every
\* off-diagonal entry of the eigenvalues matrix it scans is strictly below
\* eps in absolute value, whatever the early exits of the column scans.
C8_ConvergenceCheck ==
    (EigenCalled /\ step.kind \in {"eigen_break", "eigen_body"}) =>
        (step.stop <=> OffDiagonalBelow(step.on, arg.eps))

\* the check failed on a 3x3 matrix whose only entries not below eps are in
\* the last column, above the diagonal
C8_Witness ==
    /\ EigenCalled /\ step.kind = "eigen_body" /\ ~step.stop
    /\ arg.m.rows = 3
    /\ \A i \in 0 .. 2, j \in 0 .. 2 :
          (i # j /\ SGe(SAbs(At(step.on, i, j)), arg.eps)) => (j = 2 /\ i < j)

\* one step of qr: pass number ite of the loop, or the return
QrStep ==
    (QrCalled /\ pc = "qr") =>
        /\ pc' \in {"qr", "qr_ret"}
        /\ pc' = "qr" =>
              /\ ite < Min(arg.m.rows - 1, arg.m.cols)
              /\ step'.kind = "qr_iter" /\ step'.ite = ite /\ ite' = ite + 1
              /\ IF IsZero(Norm(step'.v1))
                 THEN step'.hh = {} /\ q' = q /\ r' = r
                 ELSE \E h \in step'.hh :
                         /\ step'.hh = {h}
                         /\ h.dim = arg.m.rows /\ h.start = ite
                         /\ h.vec = Normalize(step'.v1).vec
                         /\ r' = MatMul(h.qk, r)
                         /\ q' = MatMul(q, TransposeCpy(h.qk))
        /\ pc' = "qr_ret" =>
              /\ ite = Min(arg.m.rows - 1, arg.m.cols)
              /\ ret' = <<q, r>>

\* C9: qr runs exactly min(rows-1, cols) iterations, k = 0, 1, ... in order,
\* and then returns; an iteration whose modified vector has zero norm builds
\* no reflector and leaves Q and R unchanged; every other iteration builds
\* exactly one reflector Qk with start = k and sets R to Qk*R and Q to Q*Qk^T.
C9_QrIterations ==
    [][/\ QrStep
       /\ (pc = "idle" /\ pc' = "qr") => (ite' = 0 /\ q' = Identity(arg'.m.rows)
                                          /\ r' = arg'.m)]_vars

\* a pass that builds no reflector, after a pass that built one
C9_Witness ==
    /\ QrCalled /\ pc = "qr" /\ step.kind = "qr_iter"
    /\ step.skip /\ step.ite >= 1
    /\ q # Identity(arg.m.rows)

\* C10: nested calls never violate a callee's precondition: every call of qr
\* by eigen_qr on a square matrix has rows >= cols (the shape of the input),
\* every call of householder_matrix by qr with rows >= cols has
\* dim >= start + length(v) (dim = rows, length(v) = rows - start), and no
\* assertion fires inside a call whose entry precondition held.
C10_NestedPreconditions ==
    (QrCalled \/ EigenCalled) =>
        /\ pc # "panic"
        /\ \A c \in step.qr :
              c.ok /\ c.rows >= c.cols /\ c.rows = arg.m.rows /\ c.cols = arg.m.cols
        /\ \A h \in step.hh :
              /\ h.ok /\ h.dim >= h.start + Len(h.vec)
              /\ h.dim = arg.m.rows /\ Len(h.vec) = arg.m.rows - h.start
        /\ step.kind = "qr_iter" => \A h \in step.hh : h.start = step.ite
        /\ pc = "eigen" =>
              eigenvalues.rows = arg.m.rows /\ eigenvalues.cols = arg.m.cols

\* a pass of eigen_qr on a 3x3 matrix whose call of qr built two reflectors
C10_Witness ==
    /\ EigenCalled /\ step.kind = "eigen_body"
    /\ arg.m.rows = 3
    /\ Cardinality(step.hh) >= 2
====
